---- MODULE Spec2Model ----
(***************************************************************************)
(* Model of src/utils/carla_connector.py: six helper functions that issue  *)
(* requests to an external driving simulator.  The simulator (settings,    *)
(* scene, actors) is the shared state.  The caller runs one helper at a    *)
(* time; other controllers act on the scene while a helper runs.           *)
(*                                                                         *)
(* SessionSpec: connect_to_carla against a simulator whose settings other  *)
(*              clients change.                                            *)
(* Spec:        the five helpers that take the world handle, after a       *)
(*              successful connect_to_carla.                               *)
(* FairSpec:    Spec, with the thread inside follow_vehicle kept running.  *)
(***************************************************************************)
EXTENDS Integers, Sequences, FiniteSets, TLC

\* ---------------------------------------------------------------- bounds
MaxActors == 2
MaxCount == 2

\* ------------------------------------------------------------- constants
None == "None"
NoActor == 0
ActorIds == 1..MaxActors
Points == {"p1", "p2"}
StepSizes == {"0.05", "0.1"}
VariableStep == "0.0"
Origin == "origin"
RearAbove == "x=-4,z=4,pitch=-25"

\* The simulator's blueprint catalogue, in catalogue order.
BlueprintLibrary ==
  << [id |-> "walker.pedestrian.0001", tags |-> {"walker", "pedestrian", "0001"}],
     [id |-> "vehicle.tesla.model3", tags |-> {"vehicle", "tesla", "model3"}],
     [id |-> "sensor.camera.rgb", tags |-> {"sensor", "camera", "rgb"}] >>

TypeFilters == {"model3", "bike"}
TypeFilterLists == {<<"model3">>, <<"model3", "tesla">>, <<"model3", "bike">>}
\* vehicle_types absent (None) or empty: both are false at line 77
NoTypes == <<>>

Range(s) == {s[k] : k \in 1..Len(s)}

\* A blueprint matches a pattern when the pattern is one of its tags; the
\* wildcard pattern '*vehicle*' matches every id that contains "vehicle".
Matches(bp, pattern) ==
  IF pattern = "*vehicle*" THEN "vehicle" \in bp.tags ELSE pattern \in bp.tags

\* blueprint_library.filter(pattern): the matching ids, in catalogue order.
RECURSIVE FilterFrom(_, _)
FilterFrom(k, pattern) ==
  IF k > Len(BlueprintLibrary) THEN <<>>
  ELSE IF Matches(BlueprintLibrary[k], pattern)
       THEN <<BlueprintLibrary[k].id>> \o FilterFrom(k + 1, pattern)
       ELSE FilterFrom(k + 1, pattern)

Filter(pattern) == FilterFrom(1, pattern)

\* blueprint_library.find(id): raises when the id is not in the catalogue.
Find(id) == IF \E k \in 1..Len(BlueprintLibrary) : BlueprintLibrary[k].id = id
            THEN id ELSE None

IsVehicleType(t) == t \in Range(Filter("*vehicle*"))

\* The ids of a set of actors as the simulator lists them: ascending.
RECURSIVE Ascending(_)
Ascending(S) ==
  IF S = {} THEN <<>>
  ELSE LET m == CHOOSE x \in S : \A y \in S : x <= y
       IN <<m>> \o Ascending(S \ {m})

VARIABLES
  settings,        \* scene time-stepping configuration
  alive,           \* actors in the scene
  typeId,          \* actor -> blueprint id (None when not in the scene)
  parent,          \* actor -> actor it is attached to, or NoActor
  autopilot,       \* actor -> autonomous-driving flag
  transform,       \* actor -> point it stands on (unattached actors)
  spectator,       \* world pose of the viewpoint actor
  spawnPoints,     \* the map's registered spawn points
  nextId,          \* id the simulator gives the next actor
  client, world,   \* handles the caller holds from connect_to_carla
  pc, op,          \* position of the caller, and the helper it is in
  arg,             \* arguments of the current call
  loc,             \* locals of the current call
  ret,             \* actor handle the current call returned (spawn_vehicle)
  logged,          \* log lines printed by the current call
  escaped,         \* an exception left the current call
  exit,            \* how the current call ended
  requests,        \* simulator requests the current call has issued
  hist,            \* observations of the current call (see History)
  stopSet          \* the stop event's flag

vars == <<settings, alive, typeId, parent, autopilot, transform, spectator,
          spawnPoints, nextId, client, world, pc, op, arg, loc, ret,
          logged, escaped, exit, requests, hist, stopSet>>

actorState == <<alive, typeId, parent, autopilot, transform, nextId>>
sim == <<settings, actorState, spectator, spawnPoints>>
session == <<client, world>>

NoArg == [kind |-> "none"]
NoLoc == [kind |-> "none"]
History ==
  [pre |-> {},              \* actors of interest in the scene when the call began
   destroyed |-> {},        \* actors removed from the scene during the call
   applied |-> {},          \* actors the call has mutated successfully
   failedOn |-> {},         \* the actor whose request failed and ended the loop
   created |-> {},          \* actors the call added to the scene
   attempts |-> 0,          \* loop iterations of spawn_vehicles
   spawnRequests |-> 0,     \* spawn requests the call sent to the simulator
   fault |-> "none",        \* the request of the call's set-up that failed
   copiesAfterStop |-> 0,   \* pose copies completed in the loop after the stop flag was set
   moved |-> FALSE]         \* the followed camera moved since the last pose read

\* ----------------------------------------------------------- the scene
Occupied(p) == \E a \in alive : parent[a] = NoActor /\ transform[a] = p

\* World pose of an actor: its own, or its parent's plus the mount offset.
WorldTransform(a) ==
  IF parent[a] = NoActor THEN <<transform[a], Origin>>
  ELSE <<transform[parent[a]], RearAbove>>

\* An actor and everything attached to it.
WithAttached(a) == {a} \cup {b \in alive : parent[b] = a}

VehiclesIn(scene) == {a \in scene : IsVehicleType(typeId[a])}

Removed(S) ==
  /\ alive' = alive \ S
  /\ typeId' = [a \in ActorIds |-> IF a \in S THEN None ELSE typeId[a]]
  /\ parent' = [a \in ActorIds |-> IF a \in S THEN NoActor ELSE parent[a]]
  /\ autopilot' = [a \in ActorIds |-> IF a \in S THEN FALSE ELSE autopilot[a]]
  /\ transform' = [a \in ActorIds |-> IF a \in S THEN "p1" ELSE transform[a]]
  /\ UNCHANGED nextId

Added(bp, point, attach_to) ==
  /\ alive' = alive \cup {nextId}
  /\ typeId' = [typeId EXCEPT ![nextId] = bp]
  /\ parent' = [parent EXCEPT ![nextId] = attach_to]
  /\ autopilot' = [autopilot EXCEPT ![nextId] = FALSE]
  /\ transform' = [transform EXCEPT ![nextId] = point]
  /\ nextId' = nextId + 1

\* The simulator accepts a spawn at a free point while it has room.
CanSpawn(point) == nextId <= MaxActors /\ ~Occupied(point)

AllSettings ==
  [synchronous_mode : BOOLEAN, fixed_delta_seconds : StepSizes \cup {VariableStep}]

\* The caller between calls.
Idle ==
  /\ pc = "idle" /\ op = "none"
  /\ arg = NoArg /\ loc = NoLoc /\ ret = NoActor
  /\ logged = 0 /\ escaped = FALSE /\ exit = "none"
  /\ requests = {}
  /\ hist = History
  /\ stopSet = FALSE

EmptyScene ==
  /\ alive = {}
  /\ typeId = [a \in ActorIds |-> None]
  /\ parent = [a \in ActorIds |-> NoActor]
  /\ autopilot = [a \in ActorIds |-> FALSE]
  /\ transform = [a \in ActorIds |-> "p1"]
  /\ spectator = <<"p1", Origin>>
  /\ nextId = 1

\* After a successful connect_to_carla.
Init ==
  /\ settings = [synchronous_mode |-> FALSE, fixed_delta_seconds |-> VariableStep]
  /\ client = "client" /\ world = "world"
  /\ spawnPoints \in {{}, {"p1"}, {"p1", "p2"}}
  /\ EmptyScene
  /\ Idle

\* Before the first connect_to_carla.
SessionInit ==
  /\ settings \in AllSettings
  /\ client = None /\ world = None
  /\ spawnPoints = {"p1", "p2"}
  /\ EmptyScene
  /\ Idle

\* A call begins.
Called(name, a) ==
  /\ pc = "idle"
  /\ op' = name
  /\ arg' = a

\* A call ends: by running to its end, or in an except branch.
Returns(how) ==
  /\ pc' = "returned"
  /\ exit' = how
  /\ loc' = NoLoc

\* The caller has the result and goes on.
CallerResumes ==
  /\ pc = "returned"
  /\ pc' = "idle" /\ op' = "none"
  /\ arg' = NoArg /\ loc' = NoLoc /\ ret' = NoActor
  /\ logged' = 0 /\ escaped' = FALSE /\ exit' = "none"
  /\ requests' = {}
  /\ hist' = History
  /\ stopSet' = FALSE
  /\ UNCHANGED <<sim, session>>

\* ------------------------------------------------- connect_to_carla
\* The requests of the call, in order (lines 23-31).
ConnectSteps(synchronous) ==
  IF synchronous
  THEN <<"Client", "set_timeout", "get_world", "get_settings", "apply_settings">>
  ELSE <<"Client", "set_timeout", "get_world">>

ConnectFaults ==
  {"none", "Client", "set_timeout", "get_world", "get_settings", "apply_settings"}

\* (variant) the step size argument is dropped for the default of line 8
SteppedSettingsDefaultStep(old, fixed_delta_seconds) ==
  [old EXCEPT !.synchronous_mode = TRUE, !.fixed_delta_seconds = "0.05"]

\* settings after lines 28-31
SteppedSettings(old, fixed_delta_seconds) ==
  [old EXCEPT !.synchronous_mode = TRUE,
              !.fixed_delta_seconds = fixed_delta_seconds]

\* (variant) the except branch hands back what the try block had bound
ConnectFailurePartial(clientSoFar, worldSoFar) == <<clientSoFar, worldSoFar>>

\* the except branch, lines 35-37, whatever the try block had bound
ConnectFailure(clientSoFar, worldSoFar) == <<None, None>>

connect_to_carla(synchronous, fixed_delta_seconds, fault) ==
  LET steps == ConnectSteps(synchronous)
      failed == fault \in Range(steps)
      failAt == CHOOSE k \in 1..Len(steps) : steps[k] = fault
      ran == IF failed THEN failAt ELSE Len(steps)
      handles == IF failed
                 THEN ConnectFailure(IF failAt > 1 THEN "client" ELSE None,
                                     IF failAt > 3 THEN "world" ELSE None)
                 ELSE <<"client", "world">>
  IN /\ Called("connect_to_carla",
               [kind |-> "connect_to_carla", synchronous |-> synchronous,
                fixed_delta_seconds |-> fixed_delta_seconds])
     /\ client' = handles[1]
     /\ world' = handles[2]
     /\ settings' = IF synchronous /\ ~failed
                    THEN SteppedSettings(settings, fixed_delta_seconds)
                    ELSE settings
     /\ requests' = {steps[k] : k \in 1..ran}
     /\ logged' = IF failed THEN 1 ELSE 0
     /\ escaped' = FALSE
     /\ hist' = [History EXCEPT !.fault = fault]
     /\ Returns(IF failed THEN "error" ELSE "returned")
     /\ UNCHANGED <<actorState, spectator, spawnPoints, ret, stopSet>>

Connect ==
  \E synchronous \in BOOLEAN, fixed_delta_seconds \in StepSizes,
     fault \in ConnectFaults :
    connect_to_carla(synchronous, fixed_delta_seconds, fault)

\* Another client of the simulator changes the time-stepping configuration.
OtherClientApplies ==
  /\ pc = "idle"
  /\ \E s \in AllSettings : s # settings /\ settings' = s
  /\ UNCHANGED <<actorState, spectator, spawnPoints, session, pc, op, arg, loc, ret,
                 logged, escaped, exit, requests, hist, stopSet>>

\* ------------------------------------------------------ spawn_vehicle
\* (variant) a filter without a match falls back to the vehicle category
BlueprintCandidatesFallback(vehicle_type) ==
  IF vehicle_type # None /\ Filter(vehicle_type) # <<>>
  THEN {Filter(vehicle_type)[1]}
  ELSE Range(Filter("vehicle"))

\* lines 53-56: the blueprints the spawn may use
BlueprintCandidates(vehicle_type) ==
  IF vehicle_type # None
  THEN (IF Filter(vehicle_type) = <<>> THEN {} ELSE {Filter(vehicle_type)[1]})
  ELSE Range(Filter("vehicle"))

\* the except branch, lines 61-63
SpawnVehicleFails(vehicle_type, fault, issued, sent) ==
  /\ Called("spawn_vehicle", [kind |-> "spawn_vehicle", vehicle_type |-> vehicle_type])
  /\ ret' = NoActor
  /\ requests' = issued
  /\ logged' = 1
  /\ escaped' = FALSE
  /\ hist' = [History EXCEPT !.pre = alive, !.spawnRequests = sent, !.fault = fault]
  /\ Returns("error")
  /\ UNCHANGED <<sim, session, stopSet>>

SpawnVehicle ==
  \E vehicle_type \in TypeFilters \cup {None},
     fault \in {"none", "get_blueprint_library", "get_map", "spawn_actor"} :
    LET candidates == BlueprintCandidates(vehicle_type) IN
    \/ /\ fault = "get_blueprint_library" \/ candidates = {}
       /\ SpawnVehicleFails(vehicle_type, fault, {"get_blueprint_library"}, 0)
    \/ /\ fault # "get_blueprint_library" /\ candidates # {}
       /\ fault = "get_map" \/ spawnPoints = {}
       /\ SpawnVehicleFails(vehicle_type, fault, {"get_blueprint_library", "get_map"}, 0)
    \/ /\ fault \notin {"get_blueprint_library", "get_map"}
       /\ \E vehicle_blueprint \in candidates, spawn_point \in spawnPoints :
            IF fault = "spawn_actor" \/ ~CanSpawn(spawn_point)
            THEN SpawnVehicleFails(vehicle_type, fault,
                   {"get_blueprint_library", "get_map", "spawn_actor"}, 1)
            ELSE /\ Called("spawn_vehicle",
                           [kind |-> "spawn_vehicle", vehicle_type |-> vehicle_type])
                 /\ Added(vehicle_blueprint, spawn_point, NoActor)
                 /\ ret' = nextId
                 /\ requests' = {"get_blueprint_library", "get_map", "spawn_actor"}
                 /\ logged' = 0
                 /\ escaped' = FALSE
                 /\ hist' = [History EXCEPT !.pre = alive, !.created = {nextId},
                                            !.spawnRequests = 1]
                 /\ Returns("returned")
                 /\ UNCHANGED <<settings, spectator, spawnPoints, session, stopSet>>

\* ----------------------------------------------------- spawn_vehicles
\* line 78 finds a first match for every listed filter
AllFiltersMatch(vehicle_types) ==
  \A k \in 1..Len(vehicle_types) : Filter(vehicle_types[k]) # <<>>

\* lines 77-80, once every listed filter has a match
ResolvedBlueprints(vehicle_types) ==
  IF vehicle_types # NoTypes
  THEN {Filter(vehicle_types[k])[1] : k \in 1..Len(vehicle_types)}
  ELSE Range(Filter("*vehicle*"))

\* lines 87-89: the loop index after an iteration, raised or not (continue)
AfterAttempt(i, num_vehicles, raised) == i + 1

\* lines 75-82
SpawnVehiclesBegin ==
  \E num_vehicles \in 0..MaxCount, vehicle_types \in TypeFilterLists \cup {NoTypes},
     fault \in {"none", "get_blueprint_library", "get_map"} :
    LET setupFails == fault # "none" \/ ~AllFiltersMatch(vehicle_types)
        mapAsked == fault # "get_blueprint_library" /\ AllFiltersMatch(vehicle_types)
    IN /\ Called("spawn_vehicles",
                 [kind |-> "spawn_vehicles", num_vehicles |-> num_vehicles,
                  vehicle_types |-> vehicle_types])
       /\ requests' = {"get_blueprint_library"}
                        \cup (IF mapAsked THEN {"get_map"} ELSE {})
       /\ logged' = IF setupFails THEN 1 ELSE 0
       /\ escaped' = FALSE
       /\ hist' = [History EXCEPT !.pre = alive,
                     !.fault = IF fault = "get_map" /\ ~mapAsked THEN "none" ELSE fault]
       /\ IF setupFails THEN Returns("error")
          ELSE IF num_vehicles = 0 THEN Returns("returned")
          ELSE /\ pc' = "spawn_loop" /\ exit' = "none"
               /\ loc' = [kind |-> "spawn_vehicles", i |-> 0,
                          vehicle_blueprints |-> ResolvedBlueprints(vehicle_types)]
       /\ UNCHANGED <<sim, session, ret, stopSet>>

\* The end of one iteration of the loop at lines 84-89.
SpawnAttemptDone(raised, sent, made) ==
  LET i == AfterAttempt(loc.i, arg.num_vehicles, raised) IN
  /\ logged' = logged + (IF raised THEN 1 ELSE 0)
  /\ hist' = [hist EXCEPT !.attempts = @ + 1, !.spawnRequests = @ + sent,
                          !.created = @ \cup made]
  /\ requests' = requests \cup (IF sent > 0 THEN {"try_spawn_actor"} ELSE {})
  /\ IF i >= arg.num_vehicles
     THEN Returns("returned")
     ELSE pc' = "spawn_loop" /\ exit' = exit /\ loc' = [loc EXCEPT !.i = i]
  /\ UNCHANGED <<settings, spectator, spawnPoints, session, ret, op, arg, escaped,
                 stopSet>>

\* line 86, inside the try of lines 85-89
SpawnVehiclesAttempt ==
  /\ pc = "spawn_loop"
  /\ \/ /\ loc.vehicle_blueprints = {} \/ spawnPoints = {}
        /\ SpawnAttemptDone(TRUE, 0, {})
        /\ UNCHANGED actorState
     \/ \E bp \in loc.vehicle_blueprints, spawn_point \in spawnPoints, fault \in BOOLEAN :
          IF fault
          THEN SpawnAttemptDone(TRUE, 1, {}) /\ UNCHANGED actorState
          ELSE IF CanSpawn(spawn_point)
          THEN SpawnAttemptDone(FALSE, 1, {nextId}) /\ Added(bp, spawn_point, NoActor)
          ELSE SpawnAttemptDone(FALSE, 1, {}) /\ UNCHANGED actorState

\* -------------------------------------------------------- set_autopilot
\* line 102: the actors the loop visits
AutopilotTargets(scene) == Ascending(VehiclesIn(scene))

\* (variant) the request never reaches the vehicle
WithAutopilotDropped(flags, v, enable) == flags

\* line 103 on a vehicle still in the scene
WithAutopilot(flags, v, enable) == [flags EXCEPT ![v] = enable]

\* line 102: world.get_actors().filter('*vehicle*')
SetAutopilotBegin ==
  \E enable \in BOOLEAN, fault \in BOOLEAN :
    LET targets == AutopilotTargets(alive) IN
    /\ Called("set_autopilot", [kind |-> "set_autopilot", enable |-> enable])
    /\ requests' = {"get_actors"}
    /\ logged' = IF fault THEN 1 ELSE 0
    /\ escaped' = FALSE
    /\ hist' = [History EXCEPT !.pre = VehiclesIn(alive),
                               !.fault = IF fault THEN "get_actors" ELSE "none"]
    /\ IF fault THEN Returns("error")
       ELSE IF targets = <<>> THEN Returns("returned")
       ELSE /\ pc' = "autopilot_loop" /\ exit' = "none"
            /\ loc' = [kind |-> "set_autopilot", vehicles |-> targets]
    /\ UNCHANGED <<sim, session, ret, stopSet>>

\* line 103; the request on a vehicle no longer in the scene raises
SetAutopilotStep ==
  /\ pc = "autopilot_loop"
  /\ \E fault \in BOOLEAN :
       LET v == Head(loc.vehicles) IN
       /\ requests' = requests \cup {"set_autopilot"}
       /\ IF fault \/ v \notin alive
          THEN /\ logged' = logged + 1
               /\ Returns("error")
               /\ hist' = [hist EXCEPT !.failedOn = {v}]
               /\ UNCHANGED autopilot
          ELSE /\ autopilot' = WithAutopilot(autopilot, v, arg.enable)
               /\ hist' = [hist EXCEPT !.applied = @ \cup {v}]
               /\ logged' = logged
               /\ IF Tail(loc.vehicles) = <<>> THEN Returns("returned")
                  ELSE /\ pc' = pc /\ exit' = exit
                       /\ loc' = [loc EXCEPT !.vehicles = Tail(@)]
  /\ UNCHANGED <<settings, alive, typeId, parent, transform, nextId, spectator,
                 spawnPoints, session, ret, op, arg, escaped, stopSet>>

\* ------------------------------------------------------- destroy_actors
\* (variant) only the sensors are swept
DestroyTargetsSensorsOnly(scene) == Ascending(scene \ VehiclesIn(scene))

\* line 116: the actors the loop visits
DestroyTargets(scene) == Ascending(scene)

\* line 116: world.get_actors()
DestroyActorsBegin ==
  \E fault \in BOOLEAN :
    LET targets == DestroyTargets(alive) IN
    /\ Called("destroy_actors", [kind |-> "destroy_actors"])
    /\ requests' = {"get_actors"}
    /\ logged' = IF fault THEN 1 ELSE 0
    /\ escaped' = FALSE
    /\ hist' = [History EXCEPT !.pre = alive,
                               !.fault = IF fault THEN "get_actors" ELSE "none"]
    /\ IF fault THEN Returns("error")
       ELSE IF targets = <<>> THEN Returns("returned")
       ELSE /\ pc' = "destroy_loop" /\ exit' = "none"
            /\ loc' = [kind |-> "destroy_actors", actors |-> targets]
    /\ UNCHANGED <<sim, session, ret, stopSet>>

\* line 117.  A request on an actor already removed either raises or is
\* answered with False; both are covered by fault.
DestroyActorsStep ==
  /\ pc = "destroy_loop"
  /\ \E fault \in BOOLEAN :
       LET actor == Head(loc.actors)
           gone == IF actor \in alive THEN WithAttached(actor) ELSE {}
       IN
       /\ requests' = requests \cup {"destroy"}
       /\ IF fault
          THEN /\ logged' = logged + 1
               /\ Returns("error")
               /\ hist' = [hist EXCEPT !.failedOn = {actor}]
               /\ UNCHANGED actorState
          ELSE /\ Removed(gone)
               /\ hist' = [hist EXCEPT !.applied = @ \cup {actor},
                                       !.destroyed = @ \cup gone]
               /\ logged' = logged
               /\ IF Tail(loc.actors) = <<>> THEN Returns("returned")
                  ELSE /\ pc' = pc /\ exit' = exit
                       /\ loc' = [loc EXCEPT !.actors = Tail(@)]
  /\ UNCHANGED <<settings, spectator, spawnPoints, session, ret, op, arg, escaped,
                 stopSet>>

\* ------------------------------------------------------- follow_vehicle
FollowPcs == {"setup_read", "setup_write", "check", "read", "write", "sleep"}
LoopPcs == {"check", "read", "write", "sleep"}

\* (variant) the test of line 141 inverted
StopRequestedInverted(stop_event, flag) == stop_event # None /\ ~flag

\* line 141
StopRequested(stop_event, flag) == stop_event # None /\ flag

\* (variant) the pose of the followed vehicle instead of the camera's
PoseOfTarget(camera) == WorldTransform(parent[camera])

\* camera.get_transform(), lines 136 and 144
PoseOf(camera) == WorldTransform(camera)

\* (variant) a failed pose copy is logged and the loop goes on
AfterCopyFailureRetry == "check"

\* where a failed pose copy in the loop leaves the call (lines 150-151)
AfterCopyFailure == "returned"

\* An exception leaves the call: lines 131-136 are outside the try.
Raises ==
  /\ escaped' = TRUE
  /\ Returns("raised")

\* lines 131-135
FollowSetup ==
  \E vehicle \in 1..(nextId - 1), stop_event \in {None, "event"},
     fault \in {"none", "get_spectator", "find", "spawn_actor"} :
    /\ vehicle \in alive => IsVehicleType(typeId[vehicle])
    /\ Called("follow_vehicle", [kind |-> "follow_vehicle", vehicle |-> vehicle,
                                stop_event |-> stop_event])
    /\ requests' = IF fault = "get_spectator" THEN {"get_spectator"}
                   ELSE IF fault = "find" \/ Find("sensor.camera.rgb") = None
                   THEN {"get_spectator", "find"}
                   ELSE {"get_spectator", "find", "spawn_actor"}
    /\ logged' = 0
    /\ stopSet' = FALSE
    /\ ret' = ret
    /\ IF \/ fault # "none"
          \/ Find("sensor.camera.rgb") = None
          \/ vehicle \notin alive
          \/ nextId > MaxActors
       THEN /\ Raises
            /\ hist' = [History EXCEPT !.pre = alive, !.fault = fault]
            /\ UNCHANGED actorState
       ELSE /\ Added(Find("sensor.camera.rgb"), "p1", vehicle)
            /\ hist' = [History EXCEPT !.pre = alive, !.created = {nextId}]
            /\ escaped' = FALSE
            /\ pc' = "setup_read" /\ exit' = "none"
            /\ loc' = [kind |-> "follow_vehicle", camera |-> nextId, pose |-> None]
    /\ UNCHANGED <<settings, spectator, spawnPoints, session>>

\* camera.get_transform() at line 136
FollowSetupRead ==
  /\ pc = "setup_read"
  /\ \E fault \in BOOLEAN :
       /\ requests' = requests \cup {"get_transform"}
       /\ IF fault \/ loc.camera \notin alive
          THEN Raises /\ hist' = hist
          ELSE /\ loc' = [loc EXCEPT !.pose = PoseOf(loc.camera)]
               /\ hist' = [hist EXCEPT !.moved = FALSE]
               /\ pc' = "setup_write"
               /\ UNCHANGED <<escaped, exit>>
  /\ UNCHANGED <<sim, session, ret, op, arg, logged, stopSet>>

\* spectator.set_transform(...) at line 136
FollowSetupWrite ==
  /\ pc = "setup_write"
  /\ \E fault \in BOOLEAN :
       /\ requests' = requests \cup {"set_transform"}
       /\ IF fault
          THEN Raises /\ spectator' = spectator
          ELSE /\ spectator' = loc.pose
               /\ pc' = "check"
               /\ UNCHANGED <<escaped, exit, loc>>
  /\ UNCHANGED <<settings, actorState, spawnPoints, session, ret, op, arg, logged,
                 hist, stopSet>>

\* lines 141-142
FollowCheck ==
  /\ pc = "check"
  /\ IF StopRequested(arg.stop_event, stopSet)
     THEN Returns("stopped")
     ELSE pc' = "read" /\ UNCHANGED <<exit, loc>>
  /\ UNCHANGED <<sim, session, ret, op, arg, logged, escaped, requests, hist,
                 stopSet>>

\* The except branch at lines 150-151.
CopyFails ==
  /\ logged' = logged + 1
  /\ pc' = AfterCopyFailure
  /\ exit' = "error"
  /\ loc' = IF AfterCopyFailure = "returned" THEN NoLoc ELSE loc

\* camera.get_transform() at line 144
FollowRead ==
  /\ pc = "read"
  /\ \E fault \in BOOLEAN :
       /\ requests' = requests \cup {"get_transform"}
       /\ IF fault \/ loc.camera \notin alive
          THEN CopyFails /\ hist' = hist
          ELSE /\ loc' = [loc EXCEPT !.pose = PoseOf(loc.camera)]
               /\ hist' = [hist EXCEPT !.moved = FALSE]
               /\ pc' = "write"
               /\ UNCHANGED <<logged, exit>>
  /\ UNCHANGED <<sim, session, ret, op, arg, escaped, stopSet>>

\* spectator.set_transform(...) at line 144
FollowWrite ==
  /\ pc = "write"
  /\ \E fault \in BOOLEAN :
       /\ requests' = requests \cup {"set_transform"}
       /\ IF fault
          THEN CopyFails /\ UNCHANGED <<spectator, hist>>
          ELSE /\ spectator' = loc.pose
               /\ hist' = [hist EXCEPT !.copiesAfterStop =
                             IF stopSet /\ @ < 2 THEN @ + 1 ELSE @]
               /\ pc' = "sleep"
               /\ UNCHANGED <<logged, exit, loc>>
  /\ UNCHANGED <<settings, actorState, spawnPoints, session, ret, op, arg, escaped,
                 stopSet>>

\* time.sleep(0.01) at line 145 runs out
FollowSleep ==
  /\ pc = "sleep"
  /\ pc' = "check"
  /\ UNCHANGED <<sim, session, ret, op, arg, loc, logged, escaped, exit, requests,
                 hist, stopSet>>

\* KeyboardInterrupt inside the inner try, lines 146-148
FollowInterrupted ==
  /\ pc \in LoopPcs
  /\ logged' = logged + 1
  /\ Returns("interrupted")
  /\ UNCHANGED <<sim, session, ret, op, arg, escaped, requests, hist, stopSet>>

FollowStep ==
  \/ FollowSetupRead
  \/ FollowSetupWrite
  \/ FollowCheck
  \/ FollowRead
  \/ FollowWrite
  \/ FollowSleep

\* ------------------------------------------------- other controllers
\* Another thread sets the stop event handed to follow_vehicle.
SetStop ==
  /\ pc \in FollowPcs
  /\ arg.stop_event # None
  /\ ~stopSet
  /\ stopSet' = TRUE
  /\ UNCHANGED <<sim, session, ret, pc, op, arg, loc, logged, escaped, exit,
                 requests, hist>>

\* Another controller destroys an actor (and what is attached to it).
ControllerDestroys ==
  /\ pc # "returned"
  /\ \E a \in alive :
       /\ Removed(WithAttached(a))
       /\ hist' = IF pc = "idle" THEN hist
                  ELSE [hist EXCEPT !.destroyed = @ \cup WithAttached(a)]
  /\ UNCHANGED <<settings, spectator, spawnPoints, session, ret, pc, op, arg, loc,
                 logged, escaped, exit, requests, stopSet>>

\* A vehicle drives on; what is attached to it moves with it.
VehicleMoves ==
  /\ pc # "returned"
  /\ \E v \in alive, p \in Points :
       /\ parent[v] = NoActor
       /\ transform[v] # p
       /\ transform' = [transform EXCEPT ![v] = p]
       /\ hist' = IF pc \in FollowPcs /\ parent[loc.camera] = v
                  THEN [hist EXCEPT !.moved = TRUE] ELSE hist
  /\ UNCHANGED <<settings, alive, typeId, parent, autopilot, nextId, spectator,
                 spawnPoints, session, ret, pc, op, arg, loc, logged, escaped, exit,
                 requests, stopSet>>

\* ------------------------------------------------------ specifications
Next ==
  \/ SpawnVehicle
  \/ SpawnVehiclesBegin
  \/ SpawnVehiclesAttempt
  \/ SetAutopilotBegin
  \/ SetAutopilotStep
  \/ DestroyActorsBegin
  \/ DestroyActorsStep
  \/ FollowSetup
  \/ FollowStep
  \/ FollowInterrupted
  \/ CallerResumes
  \/ SetStop
  \/ ControllerDestroys
  \/ VehicleMoves

Spec == Init /\ [][Next]_vars

\* The thread running follow_vehicle keeps running.
FairSpec == Spec /\ WF_vars(FollowStep \/ FollowInterrupted)

SessionNext ==
  \/ Connect
  \/ CallerResumes
  \/ OtherClientApplies

SessionSpec == SessionInit /\ [][SessionNext]_vars

\* ------------------------------------------------------------ properties
ReturnedFrom(name) == op = name /\ pc = "returned"

\* A request of connect_to_carla failed.
ConnectStepFailed == hist.fault \in Range(ConnectSteps(arg.synchronous))

\* C1: when any step of connect_to_carla fails the call returns (None, None),
\* logs once and lets no exception out; when no step fails both handles are
\* non-null; a client without a world, or the reverse, is never returned.
ConnectAllOrNothing ==
  ReturnedFrom("connect_to_carla") =>
    /\ ~escaped
    /\ ConnectStepFailed => client = None /\ world = None /\ logged = 1
    /\ ~ConnectStepFailed => client # None /\ world # None
    /\ (client = None) <=> (world = None)

\* C1 witness: applying the stepped-mode settings failed, after the client
\* and the world were obtained.
ConnectFailedLate ==
  /\ ReturnedFrom("connect_to_carla")
  /\ hist.fault = "apply_settings" /\ arg.synchronous
  /\ client = None

\* C2: a successful connect_to_carla(synchronous=True, fixed_delta_seconds=s)
\* leaves the scene in synchronous mode with fixed step exactly s, whatever
\* the settings were before, and connect_to_carla never issues a tick.
SteppedModeApplied ==
  ReturnedFrom("connect_to_carla") =>
    /\ "tick" \notin requests
    /\ (arg.synchronous /\ client # None) =>
         settings = [synchronous_mode |-> TRUE,
                     fixed_delta_seconds |-> arg.fixed_delta_seconds]

\* C2 witness: stepped mode with the non-default step size was applied.
SteppedModeWithOtherStep ==
  /\ ReturnedFrom("connect_to_carla")
  /\ arg.synchronous /\ arg.fixed_delta_seconds = "0.1"
  /\ client # None
  /\ "apply_settings" \in requests

\* C3 as claimed: spawn_vehicles performs exactly num_vehicles attempts for
\* every vehicle_types value (a list whose filters may match no blueprint
\* too) and every scene, here with every request of the set-up answered.
SpawnManyAlwaysCountAttempts ==
  (ReturnedFrom("spawn_vehicles") /\ hist.fault = "none") =>
    hist.attempts = arg.num_vehicles

\* The set-up of spawn_vehicles (lines 75-82) went through.
SpawnManySetUp == AllFiltersMatch(arg.vehicle_types) /\ hist.fault = "none"

\* What spawn_vehicles does keep of C3: once the set-up has gone through
\* (catalogue fetched, every listed filter has a match, spawn points fetched)
\* it performs exactly num_vehicles attempts, however many fail, and never
\* leaves the loop early; with no spawn point registered that is
\* num_vehicles logged failures and no actor created.  When the set-up fails
\* the failure is logged once and no attempt is made.
SpawnManyCountAttemptsAfterSetUp ==
  /\ pc = "spawn_loop" => hist.attempts = loc.i /\ loc.i < arg.num_vehicles
  /\ ReturnedFrom("spawn_vehicles") =>
       /\ ~escaped
       /\ IF SpawnManySetUp
          THEN /\ hist.attempts = arg.num_vehicles
               /\ spawnPoints = {} =>
                    /\ logged = arg.num_vehicles
                    /\ hist.created = {}
                    /\ hist.spawnRequests = 0
          ELSE hist.attempts = 0 /\ logged = 1 /\ hist.created = {}

\* A full batch on a scene without spawn points.
SpawnManyWithoutSpawnPoints ==
  /\ ReturnedFrom("spawn_vehicles")
  /\ spawnPoints = {}
  /\ arg.num_vehicles = MaxCount
  /\ hist.attempts = MaxCount /\ logged = MaxCount

\* The vehicles set_autopilot found that are still in the scene.
Survivors == hist.pre \ hist.destroyed

\* The only request of the call that failed, if any, was one on an actor
\* removed from the scene during the call.
OnlyStaleHandlesFailed == hist.fault = "none" /\ hist.failedOn \subseteq hist.destroyed

\* C4 as claimed: after set_autopilot(world, True) every vehicle that was
\* there before the call and was not destroyed during it has the flag set,
\* also when another vehicle was destroyed during the call and the request
\* on it failed.
AutopilotSetOnAllSurvivors ==
  (ReturnedFrom("set_autopilot") /\ arg.enable /\ OnlyStaleHandlesFailed) =>
    \A v \in Survivors : autopilot[v]

\* C4 amended: after set_autopilot(world, True) every surviving vehicle
\* that the loop reached before its first failing request has the flag set;
\* when no request failed that is every surviving vehicle.
AutopilotSetUpToFailure ==
  (ReturnedFrom("set_autopilot") /\ arg.enable) =>
    /\ \A v \in Survivors \cap hist.applied : autopilot[v]
    /\ logged = 0 => \A v \in Survivors : autopilot[v]
    /\ ~escaped

\* C4 witness: a vehicle was destroyed during a call that did not fail, and
\* another one survived.
AutopilotWithConcurrentDestroy ==
  /\ ReturnedFrom("set_autopilot") /\ arg.enable
  /\ logged = 0
  /\ hist.destroyed # {}
  /\ Survivors # {}

\* C5 as claimed: after destroy_actors the scene holds no actor, also when
\* the destruction request for an actor already removed fails.
SceneEmptyAfterDestroyAll ==
  (ReturnedFrom("destroy_actors") /\ OnlyStaleHandlesFailed) => alive = {}

\* C5 amended: after destroy_actors (no actor being added during the call)
\* every actor the sweep reached before its first failing request is gone;
\* when no request failed the scene holds no actor.
SceneEmptyAfterCleanDestroyAll ==
  ReturnedFrom("destroy_actors") =>
    /\ hist.applied \cap alive = {}
    /\ logged = 0 => alive = {}
    /\ ~escaped

\* C5 witness: a sweep over a vehicle and what is attached to it.
DestroyAllSweptTwo ==
  /\ ReturnedFrom("destroy_actors")
  /\ logged = 0
  /\ Cardinality(hist.pre) >= 2

\* C6: once the stop event is set the loop of follow_vehicle ends at its
\* next check of the event, after at most one more pose copy, and the call
\* returns without an exception; an interrupt during the wait ends it the
\* same way; without a stop event the call only ends by a failure or an
\* interrupt.
FollowStopsOnSignal ==
  /\ [](op = "follow_vehicle" => hist.copiesAfterStop <= 1)
  /\ [][(pc = "check" /\ stopSet /\ pc' # pc) =>
          (pc' = "returned" /\ exit' \in {"stopped", "interrupted"} /\ ~escaped')]_vars
  /\ [][(pc = "sleep" /\ pc' = "returned") =>
          (exit' = "interrupted" /\ ~escaped')]_vars
  /\ []((ReturnedFrom("follow_vehicle") /\ arg.stop_event = None) =>
          exit \in {"error", "interrupted", "raised"})
  /\ ((pc \in LoopPcs /\ stopSet) ~> pc = "returned")

\* C6 witness: the event was set during a pose copy, which completed, and
\* the next check ended the loop.
FollowStoppedAfterOneCopy ==
  /\ ReturnedFrom("follow_vehicle")
  /\ exit = "stopped"
  /\ hist.copiesAfterStop = 1

\* C7 as claimed: no failure of a simulator request leaves the helper that
\* made it.
NoFaultEscapes == ~escaped

\* C8: spawn_vehicle with a filter that matches no blueprint returns None,
\* sends no spawn request and leaves the scene's actors as they were; every
\* spawn_vehicle that returns None added no actor, sent at most one spawn
\* request and logged the failure.
SpawnOneFailureAddsNothing ==
  ReturnedFrom("spawn_vehicle") =>
    /\ ~escaped
    /\ (arg.vehicle_type # None /\ Filter(arg.vehicle_type) = <<>>) =>
         /\ ret = NoActor
         /\ hist.spawnRequests = 0 /\ "spawn_actor" \notin requests
         /\ alive = hist.pre
    /\ ret = NoActor =>
         /\ hist.created = {} /\ alive = hist.pre
         /\ hist.spawnRequests <= 1
         /\ logged = 1
    /\ ret # NoActor => ret \in alive /\ alive = hist.pre \cup {ret}

\* C8 witness: a filter without a match, on a scene that holds an actor.
SpawnOneWithUnmatchedFilter ==
  /\ ReturnedFrom("spawn_vehicle")
  /\ arg.vehicle_type = "bike"
  /\ ret = NoActor
  /\ alive # {}

\* C9: a pose copy that fails inside the loop ends follow_vehicle at once:
\* the failure is logged, no exception leaves the call, no further copy is
\* made; and no step of follow_vehicle removes an actor from the scene.
FollowEndsOnCopyFailure ==
  /\ [][(pc \in {"read", "write"} /\ exit' = "error") =>
          (pc' = "returned" /\ logged' = logged + 1 /\ ~escaped')]_vars
  /\ [][(pc = "read" /\ loc.camera \notin alive /\ pc' # pc) =>
          (pc' = "returned" /\ exit' \in {"error", "interrupted"})]_vars
  /\ [](exit = "error" => pc \notin LoopPcs)
  /\ [][(pc \in FollowPcs /\ pc' # pc) => alive \subseteq alive']_vars
  /\ [](op = "follow_vehicle" => "destroy" \notin requests)

\* C9 witness: the camera was destroyed during the call and the copy failed.
FollowFailedOnDestroyedCamera ==
  /\ ReturnedFrom("follow_vehicle")
  /\ exit = "error"
  /\ hist.created # {}
  /\ hist.created \subseteq hist.destroyed

\* The loop enters its wait (line 145).
LoopEntersWait == pc = "write" /\ pc' = "sleep"

\* The loop enters its wait, or the set-up hands over to the loop.
IterationBoundary == LoopEntersWait \/ (pc = "setup_write" /\ pc' = "check")

\* C10 as claimed: until the stop event is set, whenever the loop enters its
\* wait the spectator's pose is the camera's current pose, also when the
\* followed vehicle moves between the read and the write of the copy.
ViewpointEqualsCameraAtBoundary ==
  [][(LoopEntersWait /\ ~stopSet' /\ loc.camera \in alive) =>
       spectator' = WorldTransform(loc.camera)']_vars

\* C10 amended: at every iteration boundary the spectator's pose is the pose
\* the camera had when the loop last read it; it is the camera's current
\* pose when the followed vehicle has not moved since that read.
ViewpointEqualsLastReadPose ==
  [][IterationBoundary =>
       /\ spectator' = loc.pose
       /\ (~hist.moved /\ loc.camera \in alive) => spectator' = WorldTransform(loc.camera)']_vars

\* C10 witness: the vehicle drove away from its spawn point and the
\* spectator is with the camera at the wait.
ViewpointFollowedTheVehicle ==
  /\ pc = "sleep"
  /\ loc.camera \in alive
  /\ ~hist.moved
  /\ transform[parent[loc.camera]] = "p2"
  /\ spectator = WorldTransform(loc.camera)
====
